---- MODULE Spec2Model ----
(***************************************************************************)
(* A model of the SAST scan pipeline of aspm-scanner-cli:                  *)
(*   aspm_cli/scan/sast.py             SASTScanner                         *)
(*   aspm_cli/utils/common.py          upload_results, handle_failure      *)
(*   aspm_cli/commands/scan_command.py ScanCommand.execute                 *)
(*                                                                         *)
(* Texts (Python str) are sequences of atomic lexemes; JSON values are     *)
(* tagged records [t, v]; the result file is a record [exists, content].   *)
(* The program is single-threaded: each stage of the pipeline is one       *)
(* action, and what the outside world does in that stage (the scan tool,   *)
(* the AI tool, the network, the file system) is drawn with \E.            *)
(***************************************************************************)
EXTENDS Integers, Sequences, FiniteSets, TLC

VARIABLES pc, self, file, env, sast_args, scan, ai, gate, ret, up, hf, proc, trace

vars == <<pc, self, file, env, sast_args, scan, ai, gate, ret, up, hf, proc, trace>>

(***************************************************************************)
(* Bounds of the model.                                                    *)
(***************************************************************************)
\* longest raw argument string (in tokens) given to _build_sast_args
MaxArgs == 3

\* most findings in the results sequence of a document given to the
\* Severity Gate on its own
MaxFindings == 2

\* the largest exit code handed to handle_failure
MaxExitCode == 24

(***************************************************************************)
(* Texts.                                                                  *)
(***************************************************************************)
Txt(s) == <<s>>

NoText == <<>>

\* str.upper(), lexeme by lexeme
UpperLexeme(x) ==
    CASE x = "high" -> "HIGH"
      [] x = "low" -> "LOW"
      [] x = "critical" -> "CRITICAL"
      [] OTHER -> x

Upper(s) == [i \in 1..Len(s) |-> UpperLexeme(s[i])]

RECURSIVE LStrip(_)
LStrip(s) == IF s # <<>> /\ Head(s) = " " THEN LStrip(Tail(s)) ELSE s

RECURSIVE RStrip(_)
RStrip(s) ==
    IF s # <<>> /\ s[Len(s)] = " " THEN RStrip(SubSeq(s, 1, Len(s) - 1)) ELSE s

\* str.strip()
Strip(s) == RStrip(LStrip(s))

(***************************************************************************)
(* JSON values: [t |-> tag, s, a, o], of which the tag says which field    *)
(* holds the value (the others are empty):                                 *)
(*   obj: o is a function from key to JSON value                           *)
(*   arr: a is a sequence of JSON values                                   *)
(*   str: s is a text;   bool: s is the text "true" or "false";   null     *)
(***************************************************************************)
EmptyMap == [k \in {} |-> 0]

JObj(f) == [t |-> "obj", s |-> <<>>, a |-> <<>>, o |-> f]

JArr(q) == [t |-> "arr", s |-> <<>>, a |-> q, o |-> EmptyMap]

JStr(x) == [t |-> "str", s |-> x, a |-> <<>>, o |-> EmptyMap]

JBool(b) == [t |-> "bool", s |-> IF b THEN Txt("true") ELSE Txt("false"),
             a |-> <<>>, o |-> EmptyMap]

JNull == [t |-> "null", s |-> <<>>, a |-> <<>>, o |-> EmptyMap]

\* isinstance(x, dict)
IsDict(x) == x.t = "obj"

\* k in d
HasKey(d, k) == k \in DOMAIN d.o

\* an update that keeps the keys d already has
UpdateKeepExisting(d, m) ==
    JObj([k \in (DOMAIN d.o) \cup (DOMAIN m.o) |->
            IF k \in DOMAIN d.o THEN d.o[k] ELSE m.o[k]])

\* dict.update(): the keys of m overwrite those of d
Update(d, m) ==
    JObj([k \in (DOMAIN d.o) \cup (DOMAIN m.o) |->
            IF k \in DOMAIN m.o THEN m.o[k] ELSE d.o[k]])

\* d[k] = x
SetKey(d, k, x) ==
    JObj([j \in (DOMAIN d.o) \cup {k} |-> IF j = k THEN x ELSE d.o[j]])

\* Python truthiness of a JSON value ("not results")
Truthy(x) ==
    CASE x.t = "obj" -> DOMAIN x.o # {}
      [] x.t = "arr" -> x.a # <<>>
      [] x.t = "str" -> x.s # <<>>
      [] x.t = "bool" -> x.s = Txt("true")
      [] OTHER -> FALSE

(***************************************************************************)
(* The result file (SASTScanner.result_file, "results.json").              *)
(* content.k: "empty" (zero length), "garbage" (not JSON), "json".         *)
(***************************************************************************)
NoFile == [exists |-> FALSE, content |-> [k |-> "empty", v |-> JNull]]

EmptyFile == [exists |-> TRUE, content |-> [k |-> "empty", v |-> JNull]]

GarbageFile == [exists |-> TRUE, content |-> [k |-> "garbage", v |-> JNull]]

\* json.dump(doc, f): the file holds the document
JsonFile(doc) == [exists |-> TRUE, content |-> [k |-> "json", v |-> doc]]

\* os.path.exists(result_file) and os.stat(result_file).st_size > 0
NonEmptyFile(f) == f.exists /\ f.content.k # "empty"

\* json.load(f) succeeds
Loadable(f) == f.exists /\ f.content.k = "json"

(***************************************************************************)
(* Values of the variables while the part they describe has not run.       *)
(***************************************************************************)
ScanIdle == [ran |-> FALSE, help |-> FALSE, stdout |-> FALSE, stderr |-> FALSE,
             rc |-> 0, writes |-> "nothing", left |-> NoFile]

NoAiOutcome == [fault |-> "none", rc |-> 0, stdout |-> <<>>]

AiIdle == [called |-> FALSE, invoked |-> FALSE, raised |-> FALSE, wrote |-> FALSE,
           path |-> "none", out |-> NoAiOutcome, before |-> NoFile]

\* what the process is given from outside: the soft-fail and skip-upload
\* flags, whether the configuration validates, the base name of the working
\* directory
EnvIdle == [softfail |-> FALSE, skip_upload |-> FALSE, config |-> "ok",
            cwd |-> <<"proj">>]

GateIdle == [evaluated |-> FALSE, met |-> FALSE, raised |-> FALSE]

RetIdle == [returned |-> FALSE, raised |-> FALSE, code |-> 0, result_file |-> FALSE]

UpIdle == [called |-> FALSE, data_type |-> NoText, keep_file |-> FALSE,
           debug |-> FALSE, net |-> "none", posted |-> FALSE, code |-> 0,
           before |-> NoFile]

HfIdle == [called |-> FALSE, code |-> 0, allow_softfail |-> TRUE]

ProcRunning == [exited |-> FALSE, code |-> 0]

(***************************************************************************)
(* upload_results  (common.py 45-142)                                      *)
(***************************************************************************)
\* What the POST of lines 84-93 can do:
\*   ok_json     2xx, the response body is JSON
\*   ok_text     2xx, the response body is not JSON (response.json() raises)
\*   http_error  non-2xx: raise_for_status raises HTTPError
\*   timeout, ssl, connection, request_exception: requests.exceptions.*
\*   exception   any other exception raised by the request
\*   open_error  open(file_path, 'rb') raises before any request is made
NetOutcomes == {"ok_json", "ok_text", "http_error", "timeout", "ssl",
                "connection", "request_exception", "exception", "open_error"}

\* lines 81-132: the exit code the try block and its handlers leave in
\* upload_exit_code.  It becomes 0 only on line 99, after the debug-level
\* response.json() of line 98.
UploadTryCode(debug, net) ==
    IF net = "ok_json" \/ (net = "ok_text" /\ ~debug) THEN 0 ELSE 1

\* lines 134-140: the finally block
UploadFinally(f, keep_file) ==
    IF f.exists /\ ~keep_file THEN NoFile ELSE f

\* an upload that does not look at data_type
UploadResultsAnyDataType(f, data_type, keep_file, debug, net) ==
    IF ~f.exists
    THEN [code |-> 1, file |-> f, posted |-> FALSE]
    ELSE [code |-> UploadTryCode(debug, net),
          file |-> UploadFinally(f, keep_file),
          posted |-> net # "open_error"]

\* the whole function: [code, file, posted]
UploadResults(f, data_type, keep_file, debug, net) ==
    IF data_type = NoText
    THEN [code |-> 1, file |-> f, posted |-> FALSE]
    ELSE IF ~f.exists
    THEN [code |-> 1, file |-> f, posted |-> FALSE]
    ELSE [code |-> UploadTryCode(debug, net),
          file |-> UploadFinally(f, keep_file),
          posted |-> net # "open_error"]

\* lines 50-56 passed: the try block of line 81 is entered
UploadReachesTry(f, data_type) == data_type # NoText /\ f.exists

\* A call of upload_results with the arguments held in up.
UploadResultsCall ==
    /\ pc = "upload_results"
    /\ \E net \in NetOutcomes :
         LET r == UploadResults(file, up.data_type, up.keep_file, up.debug, net)
         IN /\ file' = r.file
            /\ up' = [up EXCEPT !.called = TRUE, !.posted = r.posted,
                                !.net = IF UploadReachesTry(file, up.data_type)
                                        THEN net ELSE "none",
                                !.code = r.code, !.before = file]
    /\ pc' = "upload_returned"
    /\ trace' = Append(trace, "upload")
    /\ UNCHANGED <<self, env, sast_args, scan, ai, gate, ret, hf, proc>>

(***************************************************************************)
(* SASTScanner.__init__  (sast.py 18-41)                                   *)
(***************************************************************************)
\* str.split(','): the texts between the "," lexemes
RECURSIVE SplitComma(_, _)
SplitComma(s, cur) ==
    IF s = <<>> THEN <<cur>>
    ELSE IF Head(s) = "," THEN <<cur>> \o SplitComma(Tail(s), <<>>)
    ELSE SplitComma(Tail(s), Append(cur, Head(s)))

\* line 34: [s.strip().upper() for s in severity.split(',')]
SeverityList(severity) ==
    LET parts == SplitComma(severity, <<>>)
    IN [i \in 1..Len(parts) |-> Upper(Strip(parts[i]))]

\* lines 32-41; key and env_key are texts, NoText when not given
NewScanner(command, container_mode, severity, repo_url, commit_ref, commit_sha, pipeline_id, job_url, key, env_key, ai_analysis) ==
    [command |-> command,
     container_mode |-> container_mode,
     severity |-> SeverityList(severity),
     repo_url |-> repo_url,
     commit_ref |-> commit_ref,
     commit_sha |-> commit_sha,
     pipeline_id |-> pipeline_id,
     job_url |-> job_url,
     anthropic_api_key |-> IF key # NoText THEN key ELSE env_key,
     ai_analysis |-> ai_analysis]

\* a raw command: the tokens shlex.split yields, or malformed (it raises)
Cmd(tokens) == [tokens |-> tokens, malformed |-> FALSE]

MalformedCmd == [tokens |-> <<>>, malformed |-> TRUE]

\* no repository URL given (None or the empty string)
NoUrl == NoText

DefaultScanner ==
    NewScanner(Cmd(<<>>), TRUE, <<"HIGH", ",", "CRITICAL">>, NoUrl, JNull, JNull,
               JNull, JNull, NoText, NoText, FALSE)

(***************************************************************************)
(* upload_results called on its own, with every combination of arguments.  *)
(***************************************************************************)
DataTypes == {NoText, Txt("SAST")}

UploadFiles == {NoFile, EmptyFile, GarbageFile, JsonFile(JObj(EmptyMap))}

InitUpload ==
    /\ pc = "upload_results"
    /\ self = DefaultScanner
    /\ file \in UploadFiles
    /\ env = EnvIdle
    /\ sast_args = <<>>
    /\ scan = ScanIdle
    /\ ai = AiIdle
    /\ gate = GateIdle
    /\ ret = RetIdle
    /\ \E dt \in DataTypes, keep \in BOOLEAN, debug \in BOOLEAN :
         up = [UpIdle EXCEPT !.data_type = dt, !.keep_file = keep, !.debug = debug]
    /\ hf = HfIdle
    /\ proc = ProcRunning
    /\ trace = <<>>

NextUpload == UploadResultsCall

SpecUpload == InitUpload /\ [][NextUpload]_vars

\* C1: on every path by which upload_results returns, the result file does
\* not exist afterwards when keep_file is false, and a file that existed
\* before the call still exists afterwards when keep_file is true.
C1_CleanupOnEveryPath ==
    pc = "upload_returned" =>
        /\ ~up.keep_file => ~file.exists
        /\ (up.keep_file /\ up.before.exists) => file.exists

\* C1, the part the code keeps: once the try block of line 81 is entered the
\* finally block deletes the file unless keep_file is set.
C1_CleanupAfterTry ==
    (pc = "upload_returned" /\ UploadReachesTry(up.before, up.data_type)) =>
        /\ ~up.keep_file => ~file.exists
        /\ up.keep_file => file = up.before

C1_WitnessTimeout ==
    pc = "upload_returned" /\ up.net = "timeout" /\ ~up.keep_file /\ ~file.exists

(***************************************************************************)
(* SASTScanner._build_sast_args  (sast.py 270-317)                         *)
(***************************************************************************)
\* SASTScanner.result_file (line 16)
ResultFileName == "results.json"

\* line 278
ForbiddenFlags == {"--json", "--output"}

\* line 307: the default rules path; in local mode it is what
\* ToolManager.get_path("sast-rules") returns
DefaultRules(container_mode) ==
    IF container_mode THEN "/rules/default-rules/" ELSE "<sast-rules>"

\* lines 283-302: the while loop from index i on; [out, saw]
RECURSIVE SanitizeFrom(_, _, _, _)
SanitizeFrom(args, i, out, saw) ==
    IF i > Len(args) THEN [out |-> out, saw |-> saw]
    ELSE IF args[i] \in ForbiddenFlags
    THEN IF args[i] = "--output"
         THEN SanitizeFrom(args, i + 2, out, saw)
         ELSE SanitizeFrom(args, i + 1, out, saw)
    ELSE IF args[i] = "-f"
    THEN IF i + 1 <= Len(args)
         THEN SanitizeFrom(args, i + 2, out \o <<args[i], args[i + 1]>>, TRUE)
         \* a last "-f" falls through to line 301 and is appended again
         ELSE SanitizeFrom(args, i + 1, out \o <<args[i], args[i]>>, TRUE)
    ELSE SanitizeFrom(args, i + 1, Append(out, args[i]), saw)

\* a sanitizer that appends the default rules path whatever it saw
RulesPairAlways(saw, container_mode) == <<"-f", DefaultRules(container_mode)>>

\* lines 304-309
RulesPair(saw, container_mode) ==
    IF saw THEN <<>> ELSE <<"-f", DefaultRules(container_mode)>>

\* lines 312-315
EnforcedFlags == <<"--json", "--output", ResultFileName>>

\* the list _build_sast_args returns for a well-formed command
BuildSastArgs(command, container_mode) ==
    LET r == SanitizeFrom(command.tokens, 1, <<>>, FALSE)
    IN r.out \o RulesPair(r.saw, container_mode) \o EnforcedFlags

\* _build_sast_args called on its own: shlex.split raises ValueError on a
\* malformed command (line 277)
BuildArgsCall ==
    /\ pc = "build_sast_args"
    /\ IF self.command.malformed
       THEN /\ pc' = "raised"
            /\ UNCHANGED sast_args
       ELSE /\ pc' = "args_built"
            /\ sast_args' = BuildSastArgs(self.command, self.container_mode)
    /\ trace' = Append(trace, "build_sast_args")
    /\ UNCHANGED <<self, file, env, scan, ai, gate, ret, up, hf, proc>>

ArgTokens == {"--json", "--output", "-f", "rules/", "out.json", "src/"}

RECURSIVE SeqsUpTo(_, _)
SeqsUpTo(S, n) ==
    IF n = 0 THEN {<<>>}
    ELSE LET shorter == SeqsUpTo(S, n - 1)
         IN shorter \cup {Append(q, x) : q \in {r \in shorter : Len(r) = n - 1}, x \in S}

ArgCommands == {Cmd(t) : t \in SeqsUpTo(ArgTokens, MaxArgs)} \cup {MalformedCmd}

InitArgs ==
    /\ pc = "build_sast_args"
    /\ \E c \in ArgCommands, cm \in BOOLEAN :
         self = [DefaultScanner EXCEPT !.command = c, !.container_mode = cm]
    /\ file = NoFile
    /\ env = EnvIdle
    /\ sast_args = <<>>
    /\ scan = ScanIdle
    /\ ai = AiIdle
    /\ gate = GateIdle
    /\ ret = RetIdle
    /\ up = UpIdle
    /\ hf = HfIdle
    /\ proc = ProcRunning
    /\ trace = <<>>

NextArgs == BuildArgsCall

SpecArgs == InitArgs /\ [][NextArgs]_vars

\* how often token x occurs in q
RECURSIVE Count(_, _)
Count(q, x) ==
    IF q = <<>> THEN 0 ELSE (IF Head(q) = x THEN 1 ELSE 0) + Count(Tail(q), x)

\* the last n elements of q
LastN(q, n) == SubSeq(q, Len(q) - n + 1, Len(q))

\* the raw command holds "out.json" once, as the value of an --output
OutputValueOnce(t) ==
    /\ Count(t, "out.json") = 1
    /\ \E i \in 1..(Len(t) - 1) : t[i] = "--output" /\ t[i + 1] = "out.json"

\* C10: for every raw argument string the sanitized list holds the enforced
\* --json and --output exactly once each, as its last three elements
\* (--json, --output, results.json), and none of the user's --json / --output
\* tokens nor the value token of a user --output.
C10_ForbiddenFlagsRemoved ==
    pc = "args_built" =>
        /\ Len(sast_args) >= 3
        /\ LastN(sast_args, 3) = <<"--json", "--output", ResultFileName>>
        /\ Count(sast_args, "--json") = 1
        /\ Count(sast_args, "--output") = 1
        /\ OutputValueOnce(self.command.tokens) => Count(sast_args, "out.json") = 0

(***************************************************************************)
(* SASTScanner._severity_threshold_met  (sast.py 402-418)                  *)
(***************************************************************************)
\* d.get(k, default) on a mapping
Get(d, k, default) == IF k \in DOMAIN d.o THEN d.o[k] ELSE default

\* x in list
InList(x, l) == \E i \in 1..Len(l) : l[i] = x

\* lines 411-412 for one element of results: "hit" (its severity is in the
\* allow-list), "miss", or "raise" (the element or its extra is no mapping,
\* or its severity no string: .get / .upper raise AttributeError)
FindingVerdict(result, allow) ==
    IF ~IsDict(result) THEN "raise"
    ELSE LET extra == Get(result, "extra", JObj(EmptyMap))
         IN IF ~IsDict(extra) THEN "raise"
            ELSE LET severity == Get(extra, "severity", JStr(NoText))
                 IN IF severity.t # "str" THEN "raise"
                    ELSE IF InList(Upper(severity.s), allow) THEN "hit" ELSE "miss"

\* lines 409-414: the loop from element i on; it returns at the first hit
RECURSIVE GateLoop(_, _, _)
GateLoop(results, i, allow) ==
    IF i > Len(results) THEN "false"
    ELSE LET v == FindingVerdict(results[i], allow)
         IN IF v = "hit" THEN "true"
            ELSE IF v = "raise" THEN "raise"
            ELSE GateLoop(results, i + 1, allow)

\* lines 403-418: "true", "false" or "raise"
SeverityThresholdMet(f, allow) ==
    IF ~Loadable(f) THEN "raise"
    ELSE LET data == f.content.v
         IN IF ~IsDict(data) THEN "raise"
            ELSE LET results == Get(data, "results", JArr(<<>>))
                 IN CASE results.t = "arr" -> GateLoop(results.a, 1, allow)
                      \* iterating an empty str or dict runs no loop body; a
                      \* non-empty one yields str elements (.get raises)
                      [] results.t \in {"str", "obj"} ->
                            IF Truthy(results) THEN "raise" ELSE "false"
                      \* None, bool: not iterable
                      [] OTHER -> "raise"

\* _severity_threshold_met called on its own
GateCall ==
    /\ pc = "severity_threshold_met"
    /\ LET v == SeverityThresholdMet(file, self.severity)
       IN /\ gate' = [evaluated |-> TRUE, met |-> v = "true", raised |-> v = "raise"]
          /\ pc' = IF v = "raise" THEN "raised" ELSE "gate_returned"
    /\ trace' = Append(trace, "gate")
    /\ UNCHANGED <<self, file, env, sast_args, scan, ai, ret, up, hf, proc>>

\* Findings
Sev(s) == JObj([extra |-> JObj([severity |-> JStr(s)])])

FindingNoExtra == JObj([path |-> JStr(Txt("a.py"))])

FindingNoSeverity == JObj([extra |-> JObj([message |-> JStr(Txt("m"))])])

FindingNullSeverity == JObj([extra |-> JObj([severity |-> JNull])])

GateFindings == {Sev(Txt("HIGH")), Sev(Txt("high")), Sev(Txt("LOW")),
                 Sev(<<" ", "HIGH">>), Sev(NoText),
                 FindingNoExtra, FindingNoSeverity, FindingNullSeverity}

Doc(results) == JObj([results |-> results])

GateDocs ==
    {Doc(JArr(q)) : q \in SeqsUpTo(GateFindings, MaxFindings)}
    \cup {JObj(EmptyMap), Doc(JNull), Doc(JStr(NoText)), Doc(JStr(Txt("x"))),
          JArr(<<>>)}

GateFiles == {JsonFile(d) : d \in GateDocs} \cup {NoFile, GarbageFile}

\* raw values of the severity argument
SeverityArgs == {<<"HIGH", ",", "CRITICAL">>, <<"high">>,
                 <<" ", "high", " ", ",", "low">>, <<"HIGH", ",">>, <<>>}

InitGate ==
    /\ pc = "severity_threshold_met"
    /\ \E sev \in SeverityArgs :
         self = NewScanner(Cmd(<<>>), TRUE, sev, NoUrl, JNull, JNull, JNull, JNull,
                           NoText, NoText, FALSE)
    /\ file \in GateFiles
    /\ env = EnvIdle
    /\ sast_args = <<>>
    /\ scan = ScanIdle
    /\ ai = AiIdle
    /\ gate = GateIdle
    /\ ret = RetIdle
    /\ up = UpIdle
    /\ hf = HfIdle
    /\ proc = ProcRunning
    /\ trace = <<>>

NextGate == GateCall

SpecGate == InitGate /\ [][NextGate]_vars

\* the finding carries extra.severity and its upper-cased value is in the
\* allow-list
Flagged(finding, allow) ==
    /\ IsDict(finding)
    /\ HasKey(finding, "extra")
    /\ IsDict(finding.o["extra"])
    /\ HasKey(finding.o["extra"], "severity")
    /\ finding.o["extra"].o["severity"].t = "str"
    /\ InList(Upper(finding.o["extra"].o["severity"].s), allow)

\* the results sequence of the document in the file, empty when absent
ResultsOf(f) ==
    IF Loadable(f) /\ IsDict(f.content.v) /\ HasKey(f.content.v, "results")
          /\ f.content.v.o["results"].t = "arr"
    THEN f.content.v.o["results"].a
    ELSE <<>>

\* C7: _severity_threshold_met returns true if and only if at least one
\* Finding in results has an extra.severity whose upper-cased value is in the
\* allow-list; in particular it returns false for an empty or absent results
\* sequence and for findings that carry no severity.
C7_GateIffFlaggedFinding ==
    pc = "gate_returned" =>
        (gate.met <=> \E i \in 1..Len(ResultsOf(file)) :
                         Flagged(ResultsOf(file)[i], self.severity))

(***************************************************************************)
(* SASTScanner.process_result_file  (sast.py 334-382)                      *)
(***************************************************************************)
\* the index of the first x in text s at or after index i, 0 when none
RECURSIVE IndexFrom(_, _, _)
IndexFrom(s, x, i) ==
    IF i > Len(s) THEN 0 ELSE IF s[i] = x THEN i ELSE IndexFrom(s, x, i + 1)

UrlSchemes == {"https://", "http://"}

\* the network location of a URL text: what follows the scheme up to the
\* first "/"
NetLoc(u) ==
    IF u # <<>> /\ Head(u) \in UrlSchemes
    THEN LET i == IndexFrom(u, "/", 2)
         IN IF i = 0 THEN Tail(u) ELSE SubSeq(u, 2, i - 1)
    ELSE <<>>

\* urlparse raises ValueError ("Invalid IPv6 URL") on an unbalanced bracket
\* in the network location
UrlParseRaises(u) ==
    LET n == NetLoc(u)
    IN (IndexFrom(n, "[", 1) # 0) # (IndexFrom(n, "]", 1) # 0)

\* line 351: urlparse(url).path
UrlPath(u) ==
    IF u # <<>> /\ Head(u) \in UrlSchemes
    THEN LET i == IndexFrom(u, "/", 2)
         IN IF i = 0 THEN <<>> ELSE SubSeq(u, i, Len(u))
    ELSE u

\* os.path.basename: what follows the last "/"
RECURSIVE Basename(_)
Basename(path) ==
    LET i == IndexFrom(path, "/", 1)
    IN IF i = 0 THEN path ELSE Basename(SubSeq(path, i + 1, Len(path)))

\* line 352: .replace(".git", "") removes every occurrence
ReplaceGit(t) == SelectSeq(t, LAMBDA x : x # ".git")

\* line 349: self.repo_url and self.repo_url.strip()
UrlSupplied(u) == u # NoText /\ Strip(u) # NoText

\* lines 349-357
RepoName(repo_url, cwd) ==
    IF UrlSupplied(repo_url)
    THEN ReplaceGit(Basename(UrlPath(repo_url)))
    ELSE Basename(cwd)

\* line 358: the fallback stores a placeholder URL in the scanner object
RepoUrlAfter(repo_url, cwd) ==
    IF UrlSupplied(repo_url) THEN repo_url
    ELSE <<"localhost", "/">> \o Basename(cwd)

\* the names of the RunMetadata fields written on lines 362-370
RunMetadataFields ==
    {"repo", "sha", "ref", "run_id", "repo_url", "repo_run_url", "ai_analysis"}

\* lines 362-370, for the scanner object s as it is on line 362
Metadata(s, repo_name) ==
    JObj([repo |-> JStr(repo_name),
          sha |-> s.commit_sha,
          ref |-> s.commit_ref,
          run_id |-> s.pipeline_id,
          repo_url |-> JStr(s.repo_url),
          repo_run_url |-> s.job_url,
          ai_analysis |-> JBool(s.ai_analysis)])

\* lines 341-346
CoerceRoot(data) ==
    IF IsDict(data) THEN data
    ELSE IF data.t = "arr" /\ data.a # <<>> THEN data.a[1]
    ELSE JObj(EmptyMap)

\* what the file system does to the Enricher's open/read/write:
\*   read        open(result_file, 'r') raises
\*   write_open  open(result_file, 'w') raises, the file is untouched
\*   write_dump  json.dump raises after the file was truncated
EnrichFaults == {"none", "read", "write_open", "write_dump"}

\* the whole method: [file, self, raised]
ProcessResultFile(s, f, cwd, fault) ==
    IF ~Loadable(f) \/ fault = "read"
    THEN [file |-> f, self |-> s, raised |-> TRUE]
    ELSE IF UrlSupplied(s.repo_url) /\ UrlParseRaises(s.repo_url)
    THEN [file |-> f, self |-> s, raised |-> TRUE]
    ELSE LET data == CoerceRoot(f.content.v)
             s2 == [s EXCEPT !.repo_url = RepoUrlAfter(s.repo_url, cwd)]
         IN \* line 371: data.update raises when data is no mapping
            IF ~IsDict(data) THEN [file |-> f, self |-> s2, raised |-> TRUE]
            ELSE IF fault = "write_open"
            THEN [file |-> f, self |-> s2, raised |-> TRUE]
            ELSE IF fault = "write_dump"
            THEN [file |-> GarbageFile, self |-> s2, raised |-> TRUE]
            ELSE [file |-> JsonFile(Update(data, Metadata(s2, RepoName(s.repo_url, cwd)))),
                  self |-> s2, raised |-> FALSE]

(***************************************************************************)
(* The AI tool's standard output: a sequence of lexemes [c, v].            *)
(*   "fence" a code fence (three backticks)   "json"  the word json        *)
(*   " "     white space            "prose" text without fence or bracket  *)
(*   "{" "}" "[" "]"  the brackets of the outermost JSON value             *)
(*   "body"  what stands between the outermost brackets (the members of    *)
(*           the mapping v, the elements of the list v), or a scalar v     *)
(***************************************************************************)
Lx(c) == [c |-> c, v |-> JNull]

Body(v) == [c |-> "body", v |-> v]

\* json.dumps of a value, as lexemes
Serialize(x) ==
    CASE x.t = "obj" ->
            IF DOMAIN x.o = {} THEN <<Lx("{"), Lx("}")>>
            ELSE <<Lx("{"), Body(x), Lx("}")>>
      [] x.t = "arr" ->
            IF x.a = <<>> THEN <<Lx("["), Lx("]")>>
            ELSE <<Lx("["), Body(x), Lx("]")>>
      [] OTHER -> <<Body(x)>>

RECURSIVE LStripLx(_)
LStripLx(s) == IF s # <<>> /\ Head(s).c = " " THEN LStripLx(Tail(s)) ELSE s

RECURSIVE RStripLx(_)
RStripLx(s) ==
    IF s # <<>> /\ s[Len(s)].c = " " THEN RStripLx(SubSeq(s, 1, Len(s) - 1)) ELSE s

\* str.strip() on lexemes
StripLx(s) == RStripLx(LStripLx(s))

\* json.loads: [ok, v].  White space around the value is skipped; anything
\* else around it, or a missing bracket, is a JSONDecodeError.
ParseJson(text) ==
    LET s == StripLx(text)
        bad == [ok |-> FALSE, v |-> JNull]
    IN CASE Len(s) = 1 ->
              IF s[1].c = "body" /\ s[1].v.t \notin {"obj", "arr"}
              THEN [ok |-> TRUE, v |-> s[1].v] ELSE bad
         [] Len(s) = 2 ->
              IF s[1].c = "{" /\ s[2].c = "}" THEN [ok |-> TRUE, v |-> JObj(EmptyMap)]
              ELSE IF s[1].c = "[" /\ s[2].c = "]" THEN [ok |-> TRUE, v |-> JArr(<<>>)]
              ELSE bad
         [] Len(s) = 3 ->
              IF s[1].c = "{" /\ s[2].c = "body" /\ s[2].v.t = "obj" /\ s[3].c = "}"
              THEN [ok |-> TRUE, v |-> s[2].v]
              ELSE IF s[1].c = "[" /\ s[2].c = "body" /\ s[2].v.t = "arr" /\ s[3].c = "]"
              THEN [ok |-> TRUE, v |-> s[2].v]
              ELSE bad
         [] OTHER -> bad

\* str.find(sub, start) with 0-based positions, -1 when absent, for
\* sub = a fence directly followed by the word json
RECURSIVE FindJsonFence(_, _)
FindJsonFence(s, start) ==
    IF start + 2 > Len(s) THEN -1
    ELSE IF s[start + 1].c = "fence" /\ s[start + 2].c = "json" THEN start
    ELSE FindJsonFence(s, start + 1)

\* str.find(c, start) for a one-lexeme sub
RECURSIVE FindLx(_, _, _)
FindLx(s, c, start) ==
    IF start + 1 > Len(s) THEN -1
    ELSE IF s[start + 1].c = c THEN start
    ELSE FindLx(s, c, start + 1)

\* s[a:b] with Python's rules for a negative or too large b (a >= 0)
PySlice(s, a, b) ==
    LET hi == IF b < 0 THEN Len(s) + b ELSE IF b > Len(s) THEN Len(s) ELSE b
    IN IF a >= hi THEN <<>> ELSE SubSeq(s, a + 1, hi)

\* lines 145-153: the fenced-block rules
Unfence(output) ==
    IF FindJsonFence(output, 0) # -1
    THEN LET json_start == FindJsonFence(output, 0) + 2
             json_end == FindLx(output, "fence", json_start)
         IN StripLx(PySlice(output, json_start, json_end))
    ELSE IF FindLx(output, "fence", 0) # -1
    THEN LET json_start == FindLx(output, "fence", 0) + 1
             json_end == FindLx(output, "fence", json_start)
         IN StripLx(PySlice(output, json_start, json_end))
    ELSE output

\* lines 157-163: drop what precedes the first bracket
DropLeadingText(output) ==
    IF output # <<>> /\ Head(output).c \in {"{", "["} THEN output
    ELSE LET b == FindLx(output, "{", 0)
             k == FindLx(output, "[", 0)
             lb == IF b # -1 THEN b ELSE Len(output)
             lk == IF k # -1 THEN k ELSE Len(output)
             json_start == IF lb < lk THEN lb ELSE lk
         IN IF json_start < Len(output)
            THEN PySlice(output, json_start, Len(output)) ELSE output

\* lines 143-163
Recover(stdout) == DropLeadingText(Unfence(StripLx(stdout)))

(***************************************************************************)
(* SASTScanner._run_ai_analysis  (sast.py 98-197)                          *)
(***************************************************************************)
\* what the outside world does during one call:
\*   fault  "none"
\*          "missing"     the result file is gone when line 112 opens it
\*          "unreadable"  open/read of line 112 raises another OSError
\*          "no_start"    subprocess.run cannot start the AI tool
\*          "write_open"  open(result_file, 'w') of line 182 raises
\*          "write_dump"  json.dump of line 183 raises, the file is truncated
\*   rc, stdout  the AI process's exit code and standard output
AiOutcomes(stdouts) ==
    {[fault |-> f, rc |-> 0, stdout |-> <<>>] : f \in {"missing", "unreadable", "no_start"}}
    \cup {[fault |-> "none", rc |-> r, stdout |-> o] : r \in {0, 1}, o \in stdouts}
    \cup {[fault |-> w, rc |-> 0, stdout |-> o] :
             w \in {"write_open", "write_dump"}, o \in stdouts}

\* line 176
metadata_fields == {"repo", "sha", "ref", "run_id", "repo_url", "repo_run_url"}

\* lines 177-179
PreserveMetadata(updated_results, current_data) ==
    LET kept == {k \in metadata_fields : HasKey(current_data, k)}
    IN JObj([k \in (DOMAIN updated_results.o) \cup kept |->
                IF k \in kept THEN current_data.o[k] ELSE updated_results.o[k]])

\* a structure check that forgets the results key
ValidStructureAnyMapping(updated_results) == IsDict(updated_results)

\* line 171: the structure check
ValidStructure(updated_results) ==
    IsDict(updated_results) /\ HasKey(updated_results, "results")

\* the paths of the try block that end in an exception
AiExceptionPaths ==
    {"file_missing", "read_error", "no_start", "parse_error", "write_error"}

\* how the try block ends: the file it leaves, whether the AI tool was run,
\* whether an exception is in flight, whether line 183 wrote, the path taken
AiEnd(f, invoked, wrote, path) ==
    [file |-> f, invoked |-> invoked, raised |-> path \in AiExceptionPaths,
     wrote |-> wrote, path |-> path]

\* lines 123-186, from the invocation of the AI tool on
AiInvoke(f, current_data, o) ==
    IF o.fault = "no_start" THEN AiEnd(f, TRUE, FALSE, "no_start")
    ELSE IF o.rc # 0 THEN AiEnd(f, TRUE, FALSE, "nonzero_exit")
    ELSE IF o.stdout = <<>> THEN AiEnd(f, TRUE, FALSE, "empty_output")
    ELSE LET parsed == ParseJson(Recover(o.stdout))
         IN IF ~parsed.ok THEN AiEnd(f, TRUE, FALSE, "parse_error")
            ELSE IF ~ValidStructure(parsed.v) THEN AiEnd(f, TRUE, FALSE, "bad_shape")
            ELSE IF o.fault = "write_open" THEN AiEnd(f, TRUE, FALSE, "write_error")
            ELSE IF o.fault = "write_dump"
            THEN AiEnd(GarbageFile, TRUE, FALSE, "write_error")
            ELSE AiEnd(JsonFile(PreserveMetadata(parsed.v, current_data)),
                       TRUE, TRUE, "written")

\* a try block that does not ask for the credential
AiTryNoKeyCheck(s, f, o) ==
    IF o.fault = "missing" THEN AiEnd(NoFile, FALSE, FALSE, "file_missing")
    ELSE IF o.fault = "unreadable" \/ ~Loadable(f)
    THEN AiEnd(f, FALSE, FALSE, "read_error")
    ELSE IF ~IsDict(f.content.v) THEN AiEnd(f, FALSE, FALSE, "read_error")
    ELSE IF ~Truthy(Get(f.content.v, "results", JArr(<<>>)))
    THEN AiEnd(f, FALSE, FALSE, "no_results")
    ELSE AiInvoke(f, f.content.v, o)

\* lines 104-186: the try block
AiTry(s, f, o) ==
    IF s.anthropic_api_key = NoText THEN AiEnd(f, FALSE, FALSE, "no_key")
    ELSE IF o.fault = "missing" THEN AiEnd(NoFile, FALSE, FALSE, "file_missing")
    ELSE IF o.fault = "unreadable" \/ ~Loadable(f)
    THEN AiEnd(f, FALSE, FALSE, "read_error")
    ELSE LET current_data == f.content.v
         IN \* line 115: .get on a root that is no mapping raises
            IF ~IsDict(current_data) THEN AiEnd(f, FALSE, FALSE, "read_error")
            ELSE LET results == Get(current_data, "results", JArr(<<>>))
                 IN \* line 116: len() of None or a bool raises TypeError
                    IF results.t \in {"null", "bool"}
                    THEN AiEnd(f, FALSE, FALSE, "read_error")
                    ELSE IF ~Truthy(results) THEN AiEnd(f, FALSE, FALSE, "no_results")
                    ELSE AiInvoke(f, current_data, o)

\* handlers that catch JSONDecodeError and FileNotFoundError only
AiExceptNoCatchAll(r) ==
    IF r.path \in {"parse_error", "file_missing", "no_start"}
    THEN [r EXCEPT !.raised = FALSE] ELSE r

\* lines 188-195: JSONDecodeError, FileNotFoundError and every other
\* Exception are caught and logged
AiExcept(r) == [r EXCEPT !.raised = FALSE]

\* the whole method
RunAiAnalysis(s, f, o) == AiExcept(AiTry(s, f, o))

(***************************************************************************)
(* SASTScanner.run, lines 73-91: the stages that follow the scan tool.     *)
(***************************************************************************)
\* lines 73-75: the Enricher; an exception leaves run
EnrichStage ==
    /\ pc = "process_result_file"
    /\ \E fault \in EnrichFaults :
         LET r == ProcessResultFile(self, file, env.cwd, fault)
         IN /\ file' = r.file
            /\ self' = r.self
            /\ IF r.raised
               THEN /\ pc' = "raised"
                    /\ ret' = [ret EXCEPT !.raised = TRUE]
               ELSE /\ pc' = IF self.ai_analysis THEN "run_ai_analysis"
                                                 ELSE "severity_gate"
                    /\ UNCHANGED ret
    /\ trace' = Append(trace, "enrich")
    /\ UNCHANGED <<env, sast_args, scan, ai, gate, up, hf, proc>>

\* lines 78-83: AI Triage; run catches whatever leaves _run_ai_analysis
TriageStage(stdouts) ==
    /\ pc = "run_ai_analysis"
    /\ \E o \in AiOutcomes(stdouts) :
         LET r == RunAiAnalysis(self, file, o)
         IN /\ file' = r.file
            /\ ai' = [called |-> TRUE, invoked |-> r.invoked, raised |-> r.raised,
                      wrote |-> r.wrote, path |-> r.path,
                      out |-> IF r.invoked THEN o ELSE NoAiOutcome,
                      before |-> file]
    /\ pc' = "severity_gate"
    /\ trace' = Append(trace, "triage")
    /\ UNCHANGED <<self, env, sast_args, scan, gate, ret, up, hf, proc>>

\* lines 86-89: the exit code run returns for a verdict of the Severity Gate
GateCodeAlwaysPass(met) == 0

GateCode(met) == IF met THEN 1 ELSE 0

\* lines 85-89: the Severity Gate decides run's exit code
GateStage ==
    /\ pc = "severity_gate"
    /\ LET v == SeverityThresholdMet(file, self.severity)
       IN /\ gate' = [evaluated |-> TRUE, met |-> v = "true", raised |-> v = "raise"]
          /\ IF v = "raise"
             THEN /\ pc' = "raised"
                  /\ ret' = [ret EXCEPT !.raised = TRUE]
             ELSE /\ pc' = "run_returned"
                  /\ ret' = [returned |-> TRUE, raised |-> FALSE,
                             code |-> GateCode(v = "true"),
                             result_file |-> TRUE]
    /\ trace' = Append(trace, "gate")
    /\ UNCHANGED <<self, file, env, sast_args, scan, ai, up, hf, proc>>

(***************************************************************************)
(* The stages after the scan tool, run from every result file the tool can *)
(* leave and with every answer of the AI tool.                             *)
(***************************************************************************)
HighFinding == JObj([extra |-> JObj([severity |-> JStr(Txt("HIGH"))]),
                     path |-> JStr(Txt("a.py"))])

LowFinding == JObj([extra |-> JObj([severity |-> JStr(Txt("LOW"))]),
                    path |-> JStr(Txt("b.py"))])

\* result documents as the scan tool writes them
RawDocs ==
    {JObj([results |-> JArr(<<HighFinding, LowFinding>>), version |-> JStr(Txt("1"))]),
     Doc(JArr(<<LowFinding>>)),
     Doc(JArr(<<>>)),
     JObj(EmptyMap),
     JArr(<<Doc(JArr(<<LowFinding>>))>>),
     JObj([results |-> JArr(<<HighFinding>>), repo |-> JStr(Txt("stale"))])}

RawFiles == {JsonFile(d) : d \in RawDocs} \cup {GarbageFile}

GitUrl == <<"https://", "host", "/", "org", "/", "repo", ".git">>

BadUrl == <<"https://", "[", "host", "/", "repo">>

TriageScanner(url, key, ai_analysis) ==
    NewScanner(Cmd(<<>>), TRUE, <<"HIGH">>, url, JStr(Txt("main")), JStr(Txt("abc")),
               JNull, JNull, key, NoText, ai_analysis)

\* a scanner whose credential comes from the environment (line 40)
EnvKeyScanner ==
    NewScanner(Cmd(<<>>), TRUE, <<"HIGH">>, GitUrl, JStr(Txt("main")), JStr(Txt("abc")), JNull, JNull, NoText, Txt("env-sk"), TRUE)

TriageScanners ==
    {TriageScanner(u, k, a) : u \in {GitUrl, NoUrl, BadUrl}, k \in {Txt("sk"), NoText},
                              a \in BOOLEAN}
    \cup {EnvKeyScanner}

\* the two fields AI Triage is to add to a finding
Annotate(finding) ==
    SetKey(SetKey(finding, "is_false_positive", JBool(TRUE)),
           "validation_reason", JStr(Txt("reason")))

AnnotateAll(results) == [i \in 1..Len(results) |-> Annotate(results[i])]

AnnotateDoc(d) == SetKey(d, "results", JArr(AnnotateAll(d.o["results"].a)))

\* a finding with its severity lowered
Downgrade(finding) ==
    SetKey(finding, "extra", JObj([severity |-> JStr(Txt("LOW"))]))

\* a document as the Enricher leaves it for scanner s
Enriched(s, d) == ProcessResultFile(s, JsonFile(d), <<"proj">>, "none").file.content.v

EnrichedHigh ==
    Enriched(TriageScanner(GitUrl, Txt("sk"), TRUE),
             JObj([results |-> JArr(<<HighFinding, LowFinding>>),
                   version |-> JStr(Txt("1"))]))

EnrichedLow == Enriched(TriageScanner(NoUrl, Txt("sk"), TRUE), Doc(JArr(<<LowFinding>>)))

\* JSON values the AI tool may print
AiPayloads ==
    {AnnotateDoc(EnrichedHigh), AnnotateDoc(EnrichedLow),
     \* the annotated findings alone, no run metadata
     Doc(JArr(AnnotateAll(EnrichedHigh.o["results"].a))),
     \* run metadata changed
     SetKey(SetKey(AnnotateDoc(EnrichedHigh), "repo", JStr(Txt("other"))),
            "ai_analysis", JBool(FALSE)),
     \* findings dropped, a finding downgraded
     SetKey(EnrichedHigh, "results", JArr(<<>>)),
     SetKey(EnrichedHigh, "results", JArr(<<Annotate(Downgrade(HighFinding)),
                                            Annotate(LowFinding)>>)),
     \* no results key, a list, a scalar
     JObj([analysis |-> JStr(Txt("done"))]),
     JArr(<<Annotate(LowFinding)>>),
     JStr(Txt("ok"))}

\* the ways the AI tool wraps a JSON text
Wrappings(text) ==
    {text,
     <<Lx("fence"), Lx("json"), Lx(" ")>> \o text \o <<Lx(" "), Lx("fence")>>,
     <<Lx("fence"), Lx(" ")>> \o text \o <<Lx(" "), Lx("fence")>>,
     <<Lx("prose"), Lx(" ")>> \o text,
     text \o <<Lx(" "), Lx("prose")>>,
     <<Lx("fence"), Lx("json"), Lx(" ")>> \o text,
     <<Lx("fence"), Lx("json"), Lx(" "), Lx("prose"), Lx(" ")>> \o text
        \o <<Lx(" "), Lx("fence")>>,
     <<Lx("prose"), Lx(" "), Lx("fence"), Lx("json"), Lx(" ")>> \o text
        \o <<Lx(" "), Lx("fence"), Lx(" "), Lx("prose")>>}

AiStdouts ==
    UNION {Wrappings(Serialize(d)) : d \in AiPayloads}
    \cup {<<>>, <<Lx(" ")>>, <<Lx("prose")>>}

InitTriage ==
    /\ pc = "process_result_file"
    /\ self \in TriageScanners
    /\ file \in RawFiles
    /\ env = EnvIdle
    /\ sast_args = <<>>
    /\ scan = ScanIdle
    /\ ai = AiIdle
    /\ gate = GateIdle
    /\ ret = RetIdle
    /\ up = UpIdle
    /\ hf = HfIdle
    /\ proc = ProcRunning
    /\ trace = <<>>

NextTriage == EnrichStage \/ TriageStage(AiStdouts) \/ GateStage

SpecTriage == InitTriage /\ [][NextTriage]_vars

\* C2: whatever the AI step does, _run_ai_analysis returns without raising
\* and run goes on to evaluate the Severity Gate.
C2_TriageNeverAborts ==
    ai.called => /\ ~ai.raised
                 /\ pc = "severity_gate" \/ gate.evaluated

C2_WitnessParseError ==
    ai.called /\ ai.path = "parse_error" /\ gate.evaluated

\* a mapping that contains a results key
MappingWithResults(v) == v.t = "obj" /\ "results" \in DOMAIN v.o

\* the AI step failed or was rejected: non-zero exit, empty output, recovered
\* text that is no JSON, or JSON that is no mapping with a results key
AiRejected ==
    /\ ai.invoked
    /\ ai.out.fault = "none"
    /\ \/ ai.out.rc # 0
       \/ ai.out.stdout = <<>>
       \/ ~ParseJson(Recover(ai.out.stdout)).ok
       \/ ~MappingWithResults(ParseJson(Recover(ai.out.stdout)).v)

\* C3: whenever the AI step fails or is rejected, the result file after
\* _run_ai_analysis equals the result file before it.
C3_DegradeToSafe ==
    (pc = "severity_gate" /\ AiRejected) => file = ai.before

C3_WitnessMissingResultsKey ==
    /\ pc = "severity_gate" /\ AiRejected /\ ai.out.rc = 0
    /\ ParseJson(Recover(ai.out.stdout)).ok
    /\ ~MappingWithResults(ParseJson(Recover(ai.out.stdout)).v)
    /\ ParseJson(Recover(ai.out.stdout)).v.t = "obj"
    /\ file = ai.before /\ file.exists

\* the document in a file
DocOf(f) == f.content.v

\* C4: whenever Triage replaces the document, every RunMetadata field the
\* Enricher wrote (repo, sha, ref, run_id, repo_url, repo_run_url,
\* ai_analysis) is in the file afterwards with the value it had before.
C4_MetadataSurvivesTriage ==
    (pc = "severity_gate" /\ ai.wrote) =>
        \A k \in RunMetadataFields :
            HasKey(DocOf(ai.before), k) =>
                /\ HasKey(DocOf(file), k)
                /\ DocOf(file).o[k] = DocOf(ai.before).o[k]

\* C4, for the six fields line 176 names
C4_SixFieldsSurvive ==
    (pc = "severity_gate" /\ ai.wrote) =>
        \A k \in RunMetadataFields \ {"ai_analysis"} :
            /\ HasKey(DocOf(file), k)
            /\ DocOf(file).o[k] = DocOf(ai.before).o[k]

\* finding a is finding b with nothing but the two Triage fields added
OnlyAnnotated(a, b) ==
    /\ IsDict(a)
    /\ DOMAIN b.o \subseteq DOMAIN a.o
    /\ \A k \in DOMAIN b.o : a.o[k] = b.o[k]
    /\ (DOMAIN a.o) \ (DOMAIN b.o) \subseteq {"is_false_positive", "validation_reason"}

\* C5: for every AI output Triage accepts and writes, every Finding of the
\* results sequence before Triage is still in it afterwards with its original
\* fields unchanged, only is_false_positive and validation_reason added; hence
\* the Severity Gate gives the same verdict before and after.
C5_TriageOnlyAnnotates ==
    (pc = "severity_gate" /\ ai.wrote) =>
        /\ \A i \in 1..Len(ResultsOf(ai.before)) :
              \E j \in 1..Len(ResultsOf(file)) :
                 OnlyAnnotated(ResultsOf(file)[j], ResultsOf(ai.before)[i])
        /\ SeverityThresholdMet(file, self.severity)
              = SeverityThresholdMet(ai.before, self.severity)

(***************************************************************************)
(* SASTScanner.run, lines 43-73: the scan tool.                            *)
(***************************************************************************)
\* config.PASS_RETURN_CODE
PASS_RETURN_CODE == 0

\* config.SOMETHING_WENT_WRONG_RETURN_CODE: a non-zero code
SomethingWentWrongCodes == {1, 2}

\* lines 60, 66: "--help" in (self.command or "")
IsHelp(command) == InList("--help", command.tokens)

\* what the scan tool does: whether it could be started, whether it wrote to
\* stdout and stderr, its exit code, and what it left in the result file
\* ("nothing": the file is as it was before the tool ran)
ToolOutcomes(docs) ==
    {[started |-> FALSE, stdout |-> FALSE, stderr |-> FALSE, rc |-> 0,
      writes |-> "nothing", doc |-> JNull]}
    \cup {[started |-> TRUE, stdout |-> o, stderr |-> e, rc |-> r, writes |-> w,
           doc |-> JNull] :
             o \in BOOLEAN, e \in BOOLEAN, r \in {0, 2},
             w \in {"nothing", "empty", "garbage"}}
    \cup {[started |-> TRUE, stdout |-> o, stderr |-> e, rc |-> r, writes |-> "json",
           doc |-> d] :
             o \in BOOLEAN, e \in BOOLEAN, r \in {0, 2}, d \in docs}

\* the result file after the tool ran
FileAfterTool(f, t) ==
    CASE t.writes = "nothing" -> f
      [] t.writes = "empty" -> EmptyFile
      [] t.writes = "garbage" -> GarbageFile
      [] OTHER -> JsonFile(t.doc)

\* a help short-circuit that looks at stdout only
HelpReturnStdoutOnly(command, t) == t.stdout /\ IsHelp(command)

\* lines 57-68: the help request returns at once
HelpReturn(command, t) ==
    \/ t.stdout /\ IsHelp(command)
    \/ t.stderr /\ IsHelp(command) /\ t.rc = 0

\* run returns (code, None)
ReturnNoFile(code) ==
    [returned |-> TRUE, raised |-> FALSE, code |-> code, result_file |-> FALSE]

ScanStage(docs) ==
    /\ pc = "run"
    /\ IF self.command.malformed
       THEN \* line 277: shlex.split raises ValueError
            /\ pc' = "raised"
            /\ ret' = [ret EXCEPT !.raised = TRUE]
            /\ UNCHANGED <<sast_args, scan, file>>
       ELSE /\ sast_args' = BuildSastArgs(self.command, self.container_mode)
            /\ \E t \in ToolOutcomes(docs), wrong \in SomethingWentWrongCodes :
                 IF ~t.started
                 THEN \* line 54: subprocess.run raises
                      /\ pc' = "raised"
                      /\ ret' = [ret EXCEPT !.raised = TRUE]
                      /\ UNCHANGED <<scan, file>>
                 ELSE /\ file' = FileAfterTool(file, t)
                      /\ scan' = [ran |-> TRUE, help |-> IsHelp(self.command),
                                  stdout |-> t.stdout, stderr |-> t.stderr,
                                  rc |-> t.rc, writes |-> t.writes,
                                  left |-> FileAfterTool(file, t)]
                      /\ IF HelpReturn(self.command, t)
                         THEN /\ pc' = "run_returned"
                              /\ ret' = ReturnNoFile(PASS_RETURN_CODE)
                         ELSE IF NonEmptyFile(FileAfterTool(file, t))
                         THEN /\ pc' = "process_result_file"
                              /\ UNCHANGED ret
                         ELSE /\ pc' = "run_returned"
                              /\ ret' = ReturnNoFile(wrong)
    /\ trace' = Append(trace, "scan")
    /\ UNCHANGED <<self, env, ai, gate, up, hf, proc>>

(***************************************************************************)
(* handle_failure  (common.py 144-161)                                     *)
(***************************************************************************)
\* a soft-fail test that forgets allow_softfail
SoftFailAlwaysAllowed(softfail, allow_softfail) == softfail

\* line 155: the soft-fail flag is honoured
SoftFailHonoured(softfail, allow_softfail) == softfail /\ allow_softfail

\* whether handle_failure calls sys.exit(exit_code)
HandleFailureExits(exit_code, softfail, allow_softfail) ==
    exit_code # 0 /\ ~SoftFailHonoured(softfail, allow_softfail)

(***************************************************************************)
(* ScanCommand.execute  (scan_command.py 39-125)                           *)
(***************************************************************************)
\* scanner.data_type_identifier of the SAST scanner
DataTypeIdentifier == Txt("SAST")

\* lines 39-69: the scan type and the configuration are checked;
\* env.config is "ok", "bad_scantype" (line 57: sys.exit(1)) or "invalid"
\* (validate_config raises ValidationError, lines 119-121: sys.exit(1))
ValidateStage ==
    /\ pc = "execute"
    /\ IF env.config = "ok"
       THEN /\ pc' = "run"
            /\ UNCHANGED proc
       ELSE /\ pc' = "exited"
            /\ proc' = [exited |-> TRUE, code |-> 1]
    /\ trace' = Append(trace, "validate")
    /\ UNCHANGED <<self, file, env, sast_args, scan, ai, gate, ret, up, hf>>

\* an except handler that hands the error to the soft-fail flag
ExceptStageSoftFail ==
    /\ pc = "raised"
    /\ IF env.softfail
       THEN /\ pc' = "done"
            /\ UNCHANGED proc
       ELSE /\ pc' = "exited"
            /\ proc' = [exited |-> TRUE, code |-> 1]
    /\ trace' = Append(trace, "except")
    /\ UNCHANGED <<self, file, env, sast_args, scan, ai, gate, ret, up, hf>>

\* lines 122-125: an exception of the scan ends the process with code 1
ExceptStage ==
    /\ pc = "raised"
    /\ pc' = "exited"
    /\ proc' = [exited |-> TRUE, code |-> 1]
    /\ trace' = Append(trace, "except")
    /\ UNCHANGED <<self, file, env, sast_args, scan, ai, gate, ret, up, hf>>

\* the exit code line 117 hands to handle_failure
FinalCodeScanOnly(exit_code, upload_exit_code) == exit_code

FinalCode(exit_code, upload_exit_code) ==
    IF exit_code # 0 THEN exit_code ELSE upload_exit_code

\* an upload block that uploads only after a scan that returned 0
UploadStageOnlyOnPass ==
    /\ pc = "run_returned"
    /\ IF ret.result_file /\ file.exists
       THEN IF ~env.skip_upload /\ ret.code = 0
            THEN \E net \in NetOutcomes, debug \in BOOLEAN :
                   LET r == UploadResults(file, DataTypeIdentifier, FALSE, debug, net)
                   IN /\ file' = r.file
                      /\ up' = [called |-> TRUE, data_type |-> DataTypeIdentifier,
                                keep_file |-> FALSE, debug |-> debug, net |-> net,
                                posted |-> r.posted, code |-> r.code, before |-> file]
            ELSE /\ file' = NoFile
                 /\ UNCHANGED up
       ELSE UNCHANGED <<file, up>>
    /\ pc' = "handle_failure"
    /\ trace' = Append(trace, "upload")
    /\ UNCHANGED <<self, env, sast_args, scan, ai, gate, ret, hf, proc>>

\* lines 75-116: upload the result file, or remove it when upload is skipped
UploadStage ==
    /\ pc = "run_returned"
    /\ IF ret.result_file /\ file.exists
       THEN IF ~env.skip_upload
            THEN \E net \in NetOutcomes, debug \in BOOLEAN :
                   LET r == UploadResults(file, DataTypeIdentifier, FALSE, debug, net)
                   IN /\ file' = r.file
                      /\ up' = [called |-> TRUE, data_type |-> DataTypeIdentifier,
                                keep_file |-> FALSE, debug |-> debug, net |-> net,
                                posted |-> r.posted, code |-> r.code, before |-> file]
            ELSE /\ file' = NoFile
                 /\ UNCHANGED up
       ELSE UNCHANGED <<file, up>>
    /\ pc' = "handle_failure"
    /\ trace' = Append(trace, "upload")
    /\ UNCHANGED <<self, env, sast_args, scan, ai, gate, ret, hf, proc>>

\* line 117
HandleFailureStage ==
    /\ pc = "handle_failure"
    /\ LET code == FinalCode(ret.code, up.code)
       IN /\ hf' = [called |-> TRUE, code |-> code, allow_softfail |-> TRUE]
          /\ IF HandleFailureExits(code, env.softfail, TRUE)
             THEN /\ pc' = "exited"
                  /\ proc' = [exited |-> TRUE, code |-> code]
             ELSE /\ pc' = "done"
                  /\ UNCHANGED proc
    /\ trace' = Append(trace, "handle_failure")
    /\ UNCHANGED <<self, file, env, sast_args, scan, ai, gate, ret, up>>

(***************************************************************************)
(* The whole pipeline, from ScanCommand.execute to the end of the process. *)
(***************************************************************************)
PipelineCommands ==
    {Cmd(<<>>), Cmd(<<"--help">>), Cmd(<<"--json", "src/">>), MalformedCmd}

PipelineScanners ==
    {[TriageScanner(u, k[1], k[2]) EXCEPT !.command = c] :
        u \in {GitUrl, NoUrl, BadUrl},
        k \in {<<NoText, FALSE>>, <<NoText, TRUE>>, <<Txt("sk"), TRUE>>},
        c \in PipelineCommands}

PipelineDocs ==
    {JObj([results |-> JArr(<<HighFinding, LowFinding>>), version |-> JStr(Txt("1"))]),
     Doc(JArr(<<LowFinding>>)),
     JArr(<<>>)}

PipelineAiStdouts ==
    {Serialize(AnnotateDoc(EnrichedHigh)),
     Serialize(SetKey(EnrichedHigh, "results", JArr(<<>>))),
     Serialize(JObj([analysis |-> JStr(Txt("done"))])),
     <<Lx("prose")>>}

\* a result file left behind by an earlier run
StaleFile == JsonFile(Doc(JArr(<<HighFinding>>)))

Init ==
    /\ pc = "execute"
    /\ self \in PipelineScanners
    /\ file \in {NoFile, StaleFile}
    /\ env \in {[softfail |-> sf, skip_upload |-> su, config |-> c, cwd |-> <<"proj">>] :
                  sf \in BOOLEAN, su \in BOOLEAN,
                  c \in {"ok", "bad_scantype", "invalid"}}
    /\ sast_args = <<>>
    /\ scan = ScanIdle
    /\ ai = AiIdle
    /\ gate = GateIdle
    /\ ret = RetIdle
    /\ up = UpIdle
    /\ hf = HfIdle
    /\ proc = ProcRunning
    /\ trace = <<>>

Next ==
    \/ ValidateStage
    \/ ScanStage(PipelineDocs)
    \/ EnrichStage
    \/ TriageStage(PipelineAiStdouts)
    \/ GateStage
    \/ ExceptStage
    \/ UploadStage
    \/ HandleFailureStage

Spec == Init /\ [][Next]_vars

(***************************************************************************)
(* Properties of the pipeline.                                             *)
(***************************************************************************)
\* the scan tool left a non-empty result file and no help was requested
ScanLeftResults == scan.ran /\ NonEmptyFile(scan.left) /\ ~scan.help

\* run is over
RunOver == pc \notin {"execute", "run", "process_result_file",
                      "run_ai_analysis", "severity_gate"}

\* the stage that acted last
LastStage == trace[Len(trace)]

\* C6 as stated: whenever the scan tool leaves a non-empty result file and no
\* help is requested, run returns 1 with the result file if the Severity
\* Gate is met and 0 with the result file otherwise.
C6_RunReturnsByGate ==
    (ScanLeftResults /\ RunOver) =>
        /\ ret.returned
        /\ ret.result_file
        /\ ret.code = IF gate.met THEN 1 ELSE 0

\* C6: whenever the scan tool leaves a non-empty result file and no help is
\* requested, run either raises, which only the Enricher or the Severity
\* Gate causes, or returns the result file with exit code 1 if the Severity
\* Gate is met on it and 0 otherwise, whatever the tool's exit code and stderr.
C6_RunReturnsByGateUnlessFatal ==
    ScanLeftResults =>
        /\ pc = "raised" => LastStage \in {"enrich", "gate"}
        /\ pc = "run_returned" =>
              /\ ret.returned /\ ~ret.raised /\ ret.result_file
              /\ SeverityThresholdMet(file, self.severity) = "true" => ret.code = 1
              /\ SeverityThresholdMet(file, self.severity) = "false" => ret.code = 0
              /\ SeverityThresholdMet(file, self.severity) # "raise"

C6_WitnessFailedToolGateMet ==
    /\ ScanLeftResults /\ pc = "run_returned"
    /\ scan.rc # 0 /\ scan.stderr
    /\ ret.code = 1 /\ ret.result_file

\* C8: the exit code handed to handle_failure is 0 exactly when the scan
\* returned 0 and the upload succeeded or did not take place; it is the
\* scan's code whenever that is non-zero; and it is the upload's code when
\* the scan returned 0 and the upload failed.
C8_CodeHandedToFailureHandler ==
    hf.called =>
        /\ hf.code = 0 <=> (ret.code = 0 /\ (~up.called \/ up.code = 0))
        /\ ret.code # 0 => hf.code = ret.code
        /\ (ret.code = 0 /\ up.called /\ up.code # 0) => hf.code = up.code

C8_WitnessUploadFailedAfterCleanScan ==
    /\ hf.called /\ ret.code = 0 /\ up.called /\ up.code # 0
    /\ hf.code = up.code

\* C9: when the scan raises, the process ends with a non-zero exit code even
\* when softfail is set, and neither the upload nor handle_failure is invoked;
\* malformed raw arguments and a failure of the Severity Gate raise.
C9_FatalErrorsIgnoreSoftFail ==
    /\ ret.raised =>
          /\ pc \in {"raised", "exited"}
          /\ ~up.called /\ ~hf.called
          /\ pc = "exited" => (proc.exited /\ proc.code # 0)
    /\ (self.command.malformed /\ env.config = "ok" /\ pc \notin {"execute", "run"})
          => ret.raised
    /\ gate.raised => ret.raised

C9_WitnessInvalidUrlSoftFail ==
    /\ ret.raised /\ pc = "exited" /\ env.softfail
    /\ LastStage = "except" /\ self.repo_url = BadUrl
    /\ proc.code = 1

(***************************************************************************)
(* Further properties of _build_sast_args.                                 *)
(***************************************************************************)
\* the positions of the tokens dropped as the value of a user --output flag,
\* from position i on; the token after a -f is that flag's value
RECURSIVE OutputValuePositions(_, _)
OutputValuePositions(t, i) ==
    IF i > Len(t) THEN {}
    ELSE IF t[i] = "--output"
    THEN ({i + 1} \cap (1..Len(t))) \cup OutputValuePositions(t, i + 2)
    ELSE IF t[i] = "-f" THEN OutputValuePositions(t, i + 2)
    ELSE OutputValuePositions(t, i + 1)

\* the default rules pair is the last thing before the enforced flags
DefaultPairAppended(args, container_mode) ==
    /\ Len(args) >= 5
    /\ args[Len(args) - 4] = "-f"
    /\ args[Len(args) - 3] = DefaultRules(container_mode)
    /\ Count(args, DefaultRules(container_mode)) = 1

\* C11 as stated: a -f token at any position keeps the default rules path
\* away; without a -f token exactly one '-f <default>' pair is appended.
C11_DefaultRulesIffNoRulesToken ==
    pc = "args_built" =>
        IF Count(self.command.tokens, "-f") > 0
        THEN Count(sast_args, DefaultRules(self.container_mode)) = 0
        ELSE DefaultPairAppended(sast_args, self.container_mode)

\* C11: for every raw argument string with a -f token that is not dropped as
\* the value of a user --output flag, the default rules path is not appended;
\* for every other raw argument string exactly one '-f <default>' pair is
\* appended, /rules/default-rules/ in containerized mode and the tool-path
\* lookup result in local mode.
C11_DefaultRulesIffNoRulesFlag ==
    pc = "args_built" =>
        LET t == self.command.tokens
        IN IF \E i \in 1..Len(t) : t[i] = "-f" /\ i \notin OutputValuePositions(t, 1)
           THEN Count(sast_args, DefaultRules(self.container_mode)) = 0
           ELSE /\ DefaultPairAppended(sast_args, self.container_mode)
                /\ Count(sast_args, "-f") = 1
                /\ self.container_mode =>
                      sast_args[Len(sast_args) - 3] = "/rules/default-rules/"

C11_WitnessRulesFlagInTheMiddle ==
    /\ pc = "args_built"
    /\ self.command.tokens = <<"src/", "-f", "rules/">>
    /\ sast_args = <<"src/", "-f", "rules/", "--json", "--output", "results.json">>

(***************************************************************************)
(* process_result_file called on its own, twice in a row on the same       *)
(* scanner object, from every result file and scan request.                *)
(***************************************************************************)
EnrichCall ==
    /\ pc \in {"process_result_file", "process_result_file_again"}
    /\ \E fault \in EnrichFaults :
         LET r == ProcessResultFile(self, file, env.cwd, fault)
         IN /\ file' = r.file
            /\ self' = r.self
            /\ pc' = IF r.raised THEN "raised"
                     ELSE IF pc = "process_result_file"
                     THEN "process_result_file_again"
                     ELSE "enriched_twice"
    /\ trace' = Append(trace, "enrich")
    /\ UNCHANGED <<env, sast_args, scan, ai, gate, ret, up, hf, proc>>

\* a URL whose last path segment holds ".git" in the middle
GitHubUrl == <<"https://", "host", "/", "org", "/", "my", ".git", "hub">>

EnrichScanner(url, ai_analysis) ==
    NewScanner(Cmd(<<>>), TRUE, <<"HIGH">>, url, JStr(Txt("main")), JStr(Txt("abc")), JStr(Txt("42")), JStr(Txt("job")), NoText, NoText, ai_analysis)

EnrichScanners ==
    {EnrichScanner(u, a) : u \in {GitUrl, GitHubUrl, NoUrl, <<" ">>, BadUrl},
                           a \in BOOLEAN}

EnrichDirs == {<<"/", "work", "/", "proj">>, <<"/", "work", "/", "proj", ".git">>}

EnrichFiles ==
    RawFiles
    \cup {JsonFile(d) : d \in {JArr(<<>>), JArr(<<JStr(Txt("x"))>>), JStr(Txt("x")),
                               JNull, JBool(TRUE)}}
    \cup {NoFile, EmptyFile}

InitEnrich ==
    /\ pc = "process_result_file"
    /\ self \in EnrichScanners
    /\ file \in EnrichFiles
    /\ env \in {[EnvIdle EXCEPT !.cwd = d] : d \in EnrichDirs}
    /\ sast_args = <<>>
    /\ scan = ScanIdle
    /\ ai = AiIdle
    /\ gate = GateIdle
    /\ ret = RetIdle
    /\ up = UpIdle
    /\ hf = HfIdle
    /\ proc = ProcRunning
    /\ trace = <<>>

NextEnrich == EnrichCall

SpecEnrich == InitEnrich /\ [][NextEnrich]_vars

\* process_result_file takes the step and returns
EnrichReturns ==
    /\ pc \in {"process_result_file", "process_result_file_again"}
    /\ pc' # "raised"

\* the repository URL the metadata carry: the one supplied, else the
\* placeholder made of the working directory's name
ExpectedRepoUrl ==
    IF self.repo_url # NoText /\ self.repo_url # <<" ">> THEN self.repo_url
    ELSE <<"localhost", "/">> \o Basename(env.cwd)

\* C12: for every result file whose root is a mapping, when
\* process_result_file returns the file is valid JSON with a mapping root
\* that holds every RunMetadata key with the value derived from the scan
\* request, whatever the document held under that key, and every other root
\* key keeps its value.
C12_MetadataMergedIntoRoot ==
    [][(EnrichReturns /\ Loadable(file) /\ DocOf(file).t = "obj") =>
          /\ Loadable(file')
          /\ DocOf(file').t = "obj"
          /\ RunMetadataFields \subseteq DOMAIN DocOf(file').o
          /\ DocOf(file').o["sha"] = self.commit_sha
          /\ DocOf(file').o["ref"] = self.commit_ref
          /\ DocOf(file').o["run_id"] = self.pipeline_id
          /\ DocOf(file').o["repo_run_url"] = self.job_url
          /\ DocOf(file').o["ai_analysis"] = JBool(self.ai_analysis)
          /\ DocOf(file').o["repo_url"] = JStr(ExpectedRepoUrl)
          /\ DocOf(file').o["repo"] = JStr(RepoName(self.repo_url, env.cwd))
          /\ DOMAIN DocOf(file').o = DOMAIN DocOf(file).o \cup RunMetadataFields
          /\ \A k \in DOMAIN DocOf(file).o \ RunMetadataFields :
                DocOf(file').o[k] = DocOf(file).o[k]
    ]_vars

C12_WitnessStaleRepoOverwritten ==
    /\ pc = "process_result_file_again"
    /\ self.repo_url = GitUrl
    /\ Loadable(file)
    /\ DOMAIN DocOf(file).o = {"results"} \cup RunMetadataFields
    /\ DocOf(file).o["repo"] = JStr(Txt("repo"))
    /\ DocOf(file).o["results"] = JArr(<<HighFinding>>)

\* C13: applying process_result_file a second time with the same scanner
\* object leaves every RunMetadata field with the value it had after the
\* first application.
C13_EnricherIdempotent ==
    [][(pc = "process_result_file_again" /\ pc' = "enriched_twice") =>
          \A k \in RunMetadataFields : DocOf(file').o[k] = DocOf(file).o[k]
    ]_vars

(***************************************************************************)
(* Further properties of upload_results.                                   *)
(***************************************************************************)
\* C14: whenever data_type is empty or the result file does not exist,
\* upload_results returns 1 and issues no network request.
C14_PreconditionFailureNoRequest ==
    (pc = "upload_returned" /\ (up.data_type = NoText \/ ~up.before.exists)) =>
        /\ up.code = 1
        /\ ~up.posted

C14_WitnessEmptyDataType ==
    /\ pc = "upload_returned"
    /\ up.data_type = NoText /\ up.before.exists
    /\ up.code = 1 /\ ~up.posted

\* the POST completed with a 2xx status
PostSucceeded == up.posted /\ up.net \in {"ok_json", "ok_text"}

\* C15: upload_results returns 0 if and only if the POST completed with a 2xx
\* status, and 1 on every other path; a 2xx response yields 0 whatever the
\* response body and the log level.
C15_ZeroIffPostSucceeded ==
    pc = "upload_returned" =>
        /\ up.code = 0 <=> PostSucceeded
        /\ ~PostSucceeded => up.code = 1

(***************************************************************************)
(* Further properties of the pipeline.                                     *)
(***************************************************************************)
\* ScanCommand.execute has finished: it returned or the process exited
Finished == pc \in {"done", "exited"}

\* C16: every execution of ScanCommand.execute in which the scan tool ran
\* and that finishes (normal return, hard-fail exit or fatal-error exit)
\* leaves no result file on disk.
C16_NoResultFileLeft ==
    (Finished /\ scan.ran) => ~file.exists

\* run returned the pass code with no result file, and neither the Enricher,
\* AI Triage nor the Severity Gate ran
PassedWithoutProcessing ==
    /\ ret.returned /\ ~ret.raised
    /\ ret.code = PASS_RETURN_CODE
    /\ ~ret.result_file
    /\ ~ai.called /\ ~gate.evaluated
    /\ \A i \in 1..Len(trace) : trace[i] \notin {"enrich", "triage", "gate"}

\* C17 as stated: whenever the raw command holds the help flag and the scan
\* tool wrote anything to stdout or to stderr, run returns the pass code with
\* no result file at once, whatever the tool's exit code.
C17_HelpShortCircuitAnyOutput ==
    (scan.ran /\ scan.help /\ (scan.stdout \/ scan.stderr)) =>
        PassedWithoutProcessing

\* C17: whenever the raw command holds the help flag and the scan tool wrote
\* anything to stdout (whatever its exit code), or wrote to stderr and exited
\* with code 0, run returns the pass code with no result file at once, and
\* neither the Enricher, AI Triage nor the Severity Gate runs.
C17_HelpShortCircuit ==
    (scan.ran /\ scan.help /\ (scan.stdout \/ (scan.stderr /\ scan.rc = 0))) =>
        PassedWithoutProcessing

C17_WitnessHelpOnStderr ==
    /\ scan.ran /\ scan.help /\ ~scan.stdout /\ scan.stderr /\ scan.rc = 0
    /\ NonEmptyFile(file)
    /\ pc = "run_returned" /\ PassedWithoutProcessing

(***************************************************************************)
(* Further properties of AI Triage.                                        *)
(***************************************************************************)
\* a JSON text in a json-fenced block, in a bare fenced block, after prose
JsonFenced(text) ==
    <<Lx("fence"), Lx("json"), Lx(" ")>> \o text \o <<Lx(" "), Lx("fence")>>

BareFenced(text) == <<Lx("fence"), Lx(" ")>> \o text \o <<Lx(" "), Lx("fence")>>

AfterProse(text) == <<Lx("prose"), Lx(" ")>> \o text

\* the recovery with only the first matching rule applied: the json-fence
\* rule, else the any-fence rule, else the leading-text rule
FirstMatchOnly(output) ==
    IF FindLx(output, "fence", 0) # -1 THEN Unfence(output)
    ELSE DropLeadingText(output)

\* the AI tool ran, exited with 0 and wrote something, and no file fault
AiAnswered ==
    /\ ai.invoked /\ ai.out.fault = "none" /\ ai.out.rc = 0
    /\ ai.out.stdout # <<>>

\* C18: every JSON document D in a json-fenced block, in a bare fenced block
\* or after prose without brackets recovers to the parsed object D; and only
\* the first of the rules json-fence, any-fence, leading-text-strip that
\* matches is applied.
C18_RecoveryFirstMatchWins ==
    AiAnswered =>
        /\ \A d \in AiPayloads :
              ai.out.stdout \in {JsonFenced(Serialize(d)), BareFenced(Serialize(d)),
                                 AfterProse(Serialize(d))}
                 => /\ ParseJson(Recover(ai.out.stdout)) = [ok |-> TRUE, v |-> d]
                    /\ ai.path # "parse_error"
        /\ Recover(ai.out.stdout) = FirstMatchOnly(StripLx(ai.out.stdout))
        /\ ai.path = "parse_error"
              <=> ~ParseJson(FirstMatchOnly(StripLx(ai.out.stdout))).ok

\* C19: if the scan tool of the current run wrote no result file or a
\* zero-length one, and no help was requested, run returns the internal-error
\* code with no result file, neither the Enricher, AI Triage nor the Severity
\* Gate runs and nothing is uploaded: only a document written by the current
\* run's scan tool is enriched, gated and uploaded.
C19_OnlyCurrentRunResults ==
    (scan.ran /\ ~scan.help /\ scan.writes \in {"nothing", "empty"}) =>
        /\ \A i \in 1..Len(trace) : trace[i] \notin {"enrich", "triage", "gate"}
        /\ ~ai.called /\ ~gate.evaluated /\ ~up.called
        /\ ret.returned /\ ~ret.result_file
        /\ ret.code \in SomethingWentWrongCodes

\* C20: the AI tool is invoked only when the AI-analysis flag is set, a
\* credential is available and the results of the enriched document are
\* non-empty; in every other case it is not invoked and the result file is
\* left as it was (unless the file itself is gone when Triage opens it).
C20_AiInvokedOnlyWhenEnabled ==
    /\ ~self.ai_analysis => (~ai.called /\ ~ai.invoked)
    /\ ai.invoked =>
          /\ self.ai_analysis
          /\ self.anthropic_api_key # NoText
          /\ Loadable(ai.before)
          /\ "results" \in DOMAIN DocOf(ai.before).o
          /\ DocOf(ai.before).o["results"].a # <<>>
    /\ (pc = "severity_gate" /\ ai.called /\ ~ai.invoked /\ ai.path # "file_missing")
          => file = ai.before

C20_WitnessEnvironmentCredential ==
    /\ pc = "severity_gate"
    /\ self = EnvKeyScanner
    /\ ai.invoked /\ ai.path = "written"

\* the place of a stage in the order scan tool, Enricher, AI Triage,
\* Severity Gate, upload, failure handler
StageRank(stage) ==
    CASE stage = "validate" -> 0
      [] stage = "scan" -> 1
      [] stage = "enrich" -> 2
      [] stage = "triage" -> 3
      [] stage = "gate" -> 4
      [] stage = "upload" -> 5
      [] stage = "except" -> 5
      [] OTHER -> 6

Ran(stage) == \E i \in 1..Len(trace) : trace[i] = stage

\* C21: the stages occur in the order scan tool, Enricher, AI Triage (if
\* enabled), Severity Gate, upload, failure handler; the Severity Gate reads
\* the document as Triage left it; and the upload is attempted exactly when
\* the scan returned an existing result file and skip_upload is false, also
\* when the gate was met.
C21_StageOrdering ==
    /\ [](/\ \A i \in 1..Len(trace), j \in 1..Len(trace) :
                i < j => StageRank(trace[i]) < StageRank(trace[j])
          /\ Ran("enrich") => Ran("scan")
          /\ Ran("triage") => (Ran("enrich") /\ self.ai_analysis)
          /\ Ran("gate") => (Ran("enrich") /\ (self.ai_analysis <=> Ran("triage")))
          /\ up.called => Ran("gate")
          /\ Ran("handle_failure") => Ran("upload"))
    /\ [][/\ pc = "run_ai_analysis" => pc' = "severity_gate"
          /\ pc = "severity_gate" =>
                /\ file' = file
                /\ gate'.met <=> SeverityThresholdMet(file, self.severity) = "true"
          /\ pc = "run_returned" =>
                (up'.called <=> (ret.result_file /\ file.exists /\ ~env.skip_upload))
       ]_vars

C21_WitnessUploadAfterGateMet ==
    /\ trace = <<"validate", "scan", "enrich", "triage", "gate", "upload",
                 "handle_failure">>
    /\ ret.code = 1 /\ gate.met
    /\ up.called /\ up.posted

(***************************************************************************)
(* handle_failure called on its own, with every exit code and flag.        *)
(***************************************************************************)
HandleFailureCall ==
    /\ pc = "handle_failure_call"
    /\ hf' = [hf EXCEPT !.called = TRUE]
    /\ IF HandleFailureExits(hf.code, env.softfail, hf.allow_softfail)
       THEN /\ pc' = "exited"
            /\ proc' = [exited |-> TRUE, code |-> hf.code]
       ELSE /\ pc' = "handle_failure_returned"
            /\ UNCHANGED proc
    /\ trace' = Append(trace, "handle_failure")
    /\ UNCHANGED <<self, file, env, sast_args, scan, ai, gate, ret, up>>

InitFailure ==
    /\ pc = "handle_failure_call"
    /\ self = DefaultScanner
    /\ file = NoFile
    /\ env \in {[EnvIdle EXCEPT !.softfail = sf] : sf \in BOOLEAN}
    /\ sast_args = <<>>
    /\ scan = ScanIdle
    /\ ai = AiIdle
    /\ gate = GateIdle
    /\ ret = RetIdle
    /\ up = UpIdle
    /\ hf \in {[called |-> FALSE, code |-> c, allow_softfail |-> a] :
                 c \in 0..MaxExitCode, a \in BOOLEAN}
    /\ proc = ProcRunning
    /\ trace = <<>>

NextFailure == HandleFailureCall

SpecFailure == InitFailure /\ [][NextFailure]_vars

\* C22: handle_failure ends the process, with exactly the exit code it was
\* given, if and only if that code is non-zero and not (softfail and
\* allow_softfail); otherwise it returns normally.
C22_HandleFailureExitPolicy ==
    hf.called =>
        /\ proc.exited <=> (hf.code # 0 /\ ~(env.softfail /\ hf.allow_softfail))
        /\ proc.exited => (pc = "exited" /\ proc.code = hf.code)
        /\ ~proc.exited => pc = "handle_failure_returned"

C22_WitnessSoftFailNotAllowed ==
    /\ hf.called /\ env.softfail /\ ~hf.allow_softfail /\ hf.code = 2
    /\ proc.exited /\ proc.code = 2

(***************************************************************************)
(* Further properties of process_result_file.                              *)
(***************************************************************************)
\* the root the claim gives the document: a mapping is kept, a non-empty
\* list gives its first element, anything else the empty mapping
ExpectedRoot(data) ==
    IF data.t = "obj" THEN data
    ELSE IF data.t = "arr" /\ Len(data.a) > 0 THEN data.a[1]
    ELSE JObj(EmptyMap)

\* a first call of process_result_file on a valid JSON file, with a
\* repository URL urlparse accepts, in which no open, read or write fails
EnrichUndisturbed ==
    /\ pc = "process_result_file"
    /\ Loadable(file)
    /\ ~(UrlSupplied(self.repo_url) /\ UrlParseRaises(self.repo_url))
    /\ file' = ProcessResultFile(self, file, env.cwd, "none").file
    /\ (pc' = "raised") = ProcessResultFile(self, file, env.cwd, "none").raised

\* C23: for every valid JSON result file process_result_file completes and
\* leaves a document whose root is a mapping: a mapping root is kept, a
\* non-empty list root is replaced by its first element, any other root by
\* the empty mapping.
C23_RootShape ==
    [][EnrichUndisturbed =>
          /\ pc' = "process_result_file_again"
          /\ Loadable(file')
          /\ DocOf(file').t = "obj"
          /\ DOMAIN DocOf(file').o
                = DOMAIN ExpectedRoot(DocOf(file)).o \cup RunMetadataFields
          /\ \A k \in DOMAIN ExpectedRoot(DocOf(file)).o \ RunMetadataFields :
                DocOf(file').o[k] = ExpectedRoot(DocOf(file)).o[k]
    ]_vars

\* C24: after construction no pipeline stage changes a configuration field
\* of the SASTScanner object.
C24_ScanRequestNeverMutated ==
    [][self' = self]_vars

\* a text without a trailing ".git"
WithoutGitSuffix(t) ==
    IF Len(t) > 0 /\ t[Len(t)] = ".git" THEN SubSeq(t, 1, Len(t) - 1) ELSE t

\* C25: when a repository URL is supplied, the repository identifier the
\* Enricher writes is the final segment of the URL's path with only a
\* trailing .git removed; any other .git inside the segment is kept.
C25_OnlyTrailingGitRemoved ==
    [][(pc = "process_result_file" /\ pc' = "process_result_file_again"
          /\ UrlSupplied(self.repo_url)) =>
          DocOf(file').o["repo"]
             = JStr(WithoutGitSuffix(Basename(UrlPath(self.repo_url))))
    ]_vars

(***************************************************************************)
(* The user's other arguments in _build_sast_args.                         *)
(***************************************************************************)
\* the raw tokens from position i on with the forbidden flags, and the
\* value of --output, deleted
RECURSIVE ForbiddenDeleted(_, _)
ForbiddenDeleted(t, i) ==
    IF i > Len(t) THEN <<>>
    ELSE IF t[i] = "--json" THEN ForbiddenDeleted(t, i + 1)
    ELSE IF t[i] = "--output" THEN ForbiddenDeleted(t, i + 2)
    ELSE <<t[i]>> \o ForbiddenDeleted(t, i + 1)

\* the sanitized list without the enforced flags at its end and without the
\* default rules pair appended before them
UserPart(args, container_mode) ==
    LET n == Len(args) - 3
    IN IF n >= 2 /\ args[n - 1] = "-f" /\ args[n] = DefaultRules(container_mode)
       THEN SubSeq(args, 1, n - 2)
       ELSE SubSeq(args, 1, n)

\* C26: the sanitized list, with the appended default-rules pair and the
\* enforced output flags removed, is exactly the raw token sequence with the
\* forbidden flags (and the value of --output) deleted: every other token,
\* a last -f included, appears once and in its original order.
C26_OtherArgumentsUntouched ==
    pc = "args_built" =>
        UserPart(sast_args, self.container_mode)
           = ForbiddenDeleted(self.command.tokens, 1)

====
